---- MODULE Spec2Model ----
(***************************************************************************)
(* Model of the delivery subsystem of mixpanels-go: StdConsumer (one       *)
(* request per Send), BuffConsumer (per-endpoint buffers, threshold flush, *)
(* explicit Flush), the batch encoder jsonArray and the response           *)
(* classifier parseJsonResponse.                                           *)
(*                                                                         *)
(* Every action is one whole call of an exported method, made by a single  *)
(* caller.  The transport (http.Get) is the environment: for every request *)
(* it answers with a transport error or with a response body.  A Go panic  *)
(* that nothing in the package recovers ends the program.                  *)
(***************************************************************************)
EXTENDS Integers, Sequences, FiniteSets, TLC

\* Number of method calls explored in one run.
MaxCalls == 3
\* Largest threshold handed to NewBuffConsumer.
MaxMaxSize == 2
\* Number of Flush() calls and of direct StdConsumer.Send calls in one run.
MaxFlushCalls == 1
MaxStdSends == 1
\* Longest sequence of messages handed to jsonArray on its own.
MaxBatch == 3
\* Goroutines calling one BuffConsumer at the same time.
NumProcs == 2
\* Longest message handed to b64 on its own, in bytes.
MaxPayload == 3

events_endpoint == "https://api.mixpanel.com/track"
people_endpoint == "https://api.mixpanel.com/engage"
import_endpoint == "https://api.mixpanel.com/import"

\* Endpoint names a caller may pass: the three registered ones and one more.
EndpointNames == {"events", "people", "import", "nosuch"}

\* Serialized messages a caller may pass (sequences of bytes).
Messages == { <<"a">>, <<"b", "c">> }

\* What http.Get and the body of the response can be.
NoStatus == [present |-> FALSE, type |-> "none", val |-> 0]
Bodies ==
  { [parses |-> FALSE, status |-> NoStatus],
    [parses |-> TRUE,  status |-> NoStatus],
    [parses |-> TRUE,  status |-> [present |-> TRUE, type |-> "number", val |-> 1]],
    [parses |-> TRUE,  status |-> [present |-> TRUE, type |-> "number", val |-> 0]],
    [parses |-> TRUE,  status |-> [present |-> TRUE, type |-> "string", val |-> 1]] }
HttpOutcomes ==
  { [err |-> TRUE, body |-> [parses |-> FALSE, status |-> NoStatus]] }
    \cup { [err |-> FALSE, body |-> b] : b \in Bodies }
\* Flush discards the result of every flushEndpoint, so for it one outcome of
\* each way a flushEndpoint call can end is drawn: transport error, accepted,
\* and the panic on a status that is not a number.
FlushOutcomes ==
  { o \in HttpOutcomes :
      o.err \/ (o.body.status.present /\ o.body.status.val = 1) }

\* The transport's answers to the requests of one call, in the order the
\* requests are made: one answer per request, none left over.
Answers(outcomes, n) == UNION { [1..k -> outcomes] : k \in 0..n }
Answer(answers, i) ==
  IF i \in DOMAIN answers THEN answers[i] ELSE CHOOSE o \in HttpOutcomes : o.err

NoOp == [name |-> "none", endpoint |-> "", ret |-> "nil", appended |-> 0,
         flushes |-> <<>>, requests |-> <<>>, answers |-> <<>>]

VARIABLES
  bc,          \* the BuffConsumer: StdConsumer.endpoints, buffers, maxSize
  op,          \* the last call: name, endpoint, return value, buffer length
               \* after its append, its flushEndpoint calls, its requests
               \* and the transport's answers to them
  calls,       \* number of calls made
  nextId,      \* identity given to the next accepted message
  included,    \* included[id]: number of batches message id was put in
  sends,       \* sends[e]: messages accepted by BuffConsumer.Send for e
  autoFlushes, \* autoFlushes[e]: flushes of e triggered inside Send
  flushCalls,  \* number of Flush() calls
  stdSends,    \* number of direct StdConsumer.Send calls
  netCalls,    \* netCalls[url]: http.Get requests made to url
  enc,         \* jsonArray, or b64, on its own: its argument (a), its result
               \* (b), and for jsonArray the decoding of the result (d)
  pkg,         \* package-level state and the last call of a Mixpanel method
  conc         \* goroutines calling the BuffConsumer concurrently

vars == <<bc, op, calls, nextId, included, sends, autoFlushes, flushCalls,
          stdSends, netCalls, enc, pkg, conc>>

\* What the calls of one caller on the consumer leave alone.
others == <<enc, pkg, conc>>

----------------------------------------------------------------------------
(* Pure functions *)

Bytes(items) == [i \in DOMAIN items |-> items[i].body]

\* The separator left out.
RECURSIVE jsonTail_nosep(_, _)
jsonTail_nosep(a, i) ==
  IF i > Len(a) THEN <<"]">>
  ELSE a[i] \o jsonTail_nosep(a, i + 1)

RECURSIVE jsonTail(_, _)
jsonTail(a, i) ==
  IF i > Len(a) THEN <<"]">>
  ELSE <<",">> \o a[i] \o jsonTail(a, i + 1)

\* The loop over a[1:] started at a[0]: the first message copied twice.
jsonArray_again(a) ==
  IF Len(a) = 0 THEN <<"[", "]">>
  ELSE <<"[">> \o a[1] \o jsonTail(a, 1)

jsonArray(a) ==
  IF Len(a) = 0 THEN <<"[", "]">>
  ELSE <<"[">> \o a[1] \o jsonTail(a, 2)

\* A body without a status field taken as accepted.
parseJsonResponse_lenient(body) ==
  IF body.parses
  THEN IF body.status.present
       THEN IF body.status.type # "number"
            THEN "panic"
            ELSE IF body.status.val = 1 THEN "nil" ELSE "RemoteRejected"
       ELSE "nil"
  ELSE "Unparseable"

parseJsonResponse(body) ==
  IF body.parses
  THEN IF body.status.present
       THEN IF body.status.type # "number"
            THEN "panic"
            ELSE IF body.status.val = 1 THEN "nil" ELSE "RemoteRejected"
       ELSE "ProtocolMismatch"
  ELSE "Unparseable"

----------------------------------------------------------------------------
(* StdConsumer *)

\* NewStdConsumer when the package variable import_endpoint holds g.
NewStdConsumerWith(g) ==
  [endpoints |-> [e \in {"events", "people", "import"} |->
                    CASE e = "events" -> events_endpoint
                      [] e = "people" -> people_endpoint
                      [] e = "import" -> g]]

\* NewStdConsumer before any Track call: the variable holds its initial value.
NewStdConsumer == NewStdConsumerWith(import_endpoint)

\* The classifier applied to whatever came back, transport failure or not.
write_classified(url, msg, outcome) ==
  [requests |-> << [url |-> url, msg |-> msg] >>,
   ret |-> parseJsonResponse(outcome.body)]

write(url, msg, outcome) ==
  [requests |-> << [url |-> url, msg |-> msg] >>,
   ret |-> IF outcome.err THEN "TransportError"
           ELSE parseJsonResponse(outcome.body)]

\* The lookup with its ok result ignored: a missing key yields the empty URL.
StdConsumerSend_unchecked(c, endpoint, msg, outcome) ==
  write(IF endpoint \in DOMAIN c.endpoints THEN c.endpoints[endpoint] ELSE "",
        msg, outcome)

\* Every registered endpoint sent to the events URL.
StdConsumerSend_events(c, endpoint, msg, outcome) ==
  IF endpoint \notin DOMAIN c.endpoints
  THEN [requests |-> <<>>, ret |-> "UnknownEndpoint"]
  ELSE write(events_endpoint, msg, outcome)

StdConsumerSend(c, endpoint, msg, outcome) ==
  IF endpoint \notin DOMAIN c.endpoints
  THEN [requests |-> <<>>, ret |-> "UnknownEndpoint"]
  ELSE write(c.endpoints[endpoint], msg, outcome)

----------------------------------------------------------------------------
(* BuffConsumer *)

NewBuffConsumer(maxSize) ==
  [StdConsumer |-> NewStdConsumer,
   maxSize |-> maxSize,
   buffers |-> [e \in {"people", "events", "import"} |-> <<>>]]

\* The batch of every endpoint forwarded to "events".
flushEndpoint_events(c, endpoint, outcome) ==
  LET items == c.buffers[endpoint]
      msg == jsonArray(Bytes(items))
      r == StdConsumerSend(c.StdConsumer, "events", msg, outcome)
  IN [bc |-> c, items |-> items, msg |-> msg, sendTo |-> "events",
      ret |-> r.ret, requests |-> r.requests]

flushEndpoint(c, endpoint, outcome) ==
  LET items == c.buffers[endpoint]
      msg == jsonArray(Bytes(items))
      r == StdConsumerSend(c.StdConsumer, endpoint, msg, outcome)
  IN [bc |-> c, items |-> items, msg |-> msg, sendTo |-> endpoint,
      ret |-> r.ret, requests |-> r.requests]

\* What one flushEndpoint call did: the buffer it found (snapshot), the
\* messages it encoded (items), the batch (msg) and the endpoint it handed to
\* StdConsumer.Send, its result, and the buffer it left (after).
FlushRecord(c, endpoint, f) ==
  [endpoint |-> endpoint, snapshot |-> c.buffers[endpoint],
   items |-> f.items, msg |-> f.msg, sendTo |-> f.sendTo,
   ret |-> f.ret, requests |-> f.requests, after |-> f.bc.buffers[endpoint]]

\* The threshold test off by one.
exceeds_reached(len, maxSize) == len >= maxSize

exceeds(len, maxSize) == len > maxSize

\* The lookup left out: the assignment makes a buffer for any name given.
BuffConsumerSend_unguarded(c, endpoint, item, outcome) ==
  LET c1 == [c EXCEPT !.buffers =
               [e \in DOMAIN c.buffers \cup {endpoint} |->
                  IF e = endpoint
                  THEN Append(IF e \in DOMAIN c.buffers THEN c.buffers[e] ELSE <<>>,
                              item)
                  ELSE c.buffers[e]]]
  IN IF exceeds(Len(c1.buffers[endpoint]), c1.maxSize)
     THEN LET f == flushEndpoint(c1, endpoint, outcome)
          IN [bc |-> f.bc,
              ret |-> IF f.ret = "panic" THEN "panic" ELSE "nil",
              accepted |-> endpoint \in DOMAIN c.buffers,
              appended |-> Len(c1.buffers[endpoint]),
              flushes |-> << FlushRecord(c1, endpoint, f) >>]
     ELSE [bc |-> c1, ret |-> "nil", accepted |-> endpoint \in DOMAIN c.buffers,
           appended |-> Len(c1.buffers[endpoint]), flushes |-> <<>>]

BuffConsumerSend(c, endpoint, item, outcome) ==
  IF endpoint \notin DOMAIN c.buffers
  THEN [bc |-> c, ret |-> "UnknownEndpoint", accepted |-> FALSE,
        appended |-> 0, flushes |-> <<>>]
  ELSE LET c1 == [c EXCEPT !.buffers[endpoint] = Append(@, item)]
       IN IF exceeds(Len(c1.buffers[endpoint]), c1.maxSize)
          THEN LET f == flushEndpoint(c1, endpoint, outcome)
               IN [bc |-> f.bc,
                   ret |-> IF f.ret = "panic" THEN "panic" ELSE "nil",
                   accepted |-> TRUE,
                   appended |-> Len(c1.buffers[endpoint]),
                   flushes |-> << FlushRecord(c1, endpoint, f) >>]
          ELSE [bc |-> c1, ret |-> "nil", accepted |-> TRUE,
                appended |-> Len(c1.buffers[endpoint]), flushes |-> <<>>]

\* The loop of Flush over the endpoints in the order the map yields them;
\* used is the number of requests made so far.
\* The loop of Flush leaving out the last endpoint the map yields.
RECURSIVE flushRange_short(_, _, _, _, _)
flushRange_short(c, order, answers, i, used) ==
  IF i >= Len(order) THEN [bc |-> c, flushes |-> <<>>, panicked |-> FALSE]
  ELSE LET f == flushEndpoint(c, order[i], Answer(answers, used + 1))
           rec == FlushRecord(c, order[i], f)
       IN IF f.ret = "panic"
          THEN [bc |-> f.bc, flushes |-> <<rec>>, panicked |-> TRUE]
          ELSE LET rest == flushRange_short(f.bc, order, answers, i + 1,
                                            used + Len(f.requests))
               IN [bc |-> rest.bc, flushes |-> <<rec>> \o rest.flushes,
                   panicked |-> rest.panicked]

RECURSIVE flushRange(_, _, _, _, _)
flushRange(c, order, answers, i, used) ==
  IF i > Len(order) THEN [bc |-> c, flushes |-> <<>>, panicked |-> FALSE]
  ELSE LET f == flushEndpoint(c, order[i], Answer(answers, used + 1))
           rec == FlushRecord(c, order[i], f)
       IN IF f.ret = "panic"
          THEN [bc |-> f.bc, flushes |-> <<rec>>, panicked |-> TRUE]
          ELSE LET rest == flushRange(f.bc, order, answers, i + 1,
                                      used + Len(f.requests))
               IN [bc |-> rest.bc, flushes |-> <<rec>> \o rest.flushes,
                   panicked |-> rest.panicked]

BuffConsumerFlush(c, order, answers) ==
  LET r == flushRange(c, order, answers, 1, 0)
  IN [bc |-> r.bc, flushes |-> r.flushes,
      ret |-> IF r.panicked THEN "panic" ELSE "nil"]

\* Orders in which ranging over the buffers map can yield its keys.
RangeOrders(c) ==
  { o \in [1..Cardinality(DOMAIN c.buffers) -> DOMAIN c.buffers] :
      \A i, j \in DOMAIN o : i # j => o[i] # o[j] }

----------------------------------------------------------------------------
(* Bookkeeping of what the calls did *)

RECURSIVE Concat(_)
Concat(ss) == IF Len(ss) = 0 THEN <<>> ELSE Head(ss) \o Concat(Tail(ss))

RequestsOf(flushes) == Concat([i \in DOMAIN flushes |-> flushes[i].requests])

TimesIn(flushes, id) ==
  Cardinality({ i \in DOMAIN flushes :
                  \E j \in DOMAIN flushes[i].items : flushes[i].items[j].id = id })

CountTo(requests, url) ==
  Cardinality({ i \in DOMAIN requests : requests[i].url = url })

Urls == {events_endpoint, people_endpoint, import_endpoint}

Running == calls < MaxCalls /\ op.ret # "panic"

----------------------------------------------------------------------------
NoEnc == [stage |-> "none", a |-> <<>>, b |-> <<>>, d |-> <<>>]
NoPkg == [stage |-> "none"]
NoConc == [stage |-> "none"]

\* The state after NewBuffConsumer(m), before any call.
Fresh(m) ==
  /\ bc = NewBuffConsumer(m)
  /\ op = NoOp
  /\ calls = 0
  /\ nextId = 1
  /\ included = <<>>
  /\ sends = [e \in DOMAIN bc.buffers |-> 0]
  /\ autoFlushes = [e \in DOMAIN bc.buffers |-> 0]
  /\ flushCalls = 0
  /\ stdSends = 0
  /\ netCalls = [u \in Urls |-> 0]

Init ==
  /\ \E m \in 1..MaxMaxSize : Fresh(m)
  /\ enc = NoEnc
  /\ pkg = NoPkg
  /\ conc = NoConc

\* bc.Send(endpoint, msg)
BuffSend ==
  /\ Running
  /\ \E endpoint \in EndpointNames, msg \in Messages,
        answers \in Answers(HttpOutcomes, 1) :
     \E r \in { BuffConsumerSend(bc, endpoint, [id |-> nextId, body |-> msg],
                                  Answer(answers, 1)) } :
       LET reqs == RequestsOf(r.flushes)
           inc0 == IF r.accepted THEN Append(included, 0) ELSE included
       IN /\ Len(reqs) = Len(answers)
          /\ bc' = r.bc
          /\ op' = [name |-> "BuffSend", endpoint |-> endpoint, ret |-> r.ret,
                    appended |-> r.appended, flushes |-> r.flushes,
                    requests |-> reqs, answers |-> answers]
          /\ nextId' = IF r.accepted THEN nextId + 1 ELSE nextId
          /\ included' = [id \in DOMAIN inc0 |-> inc0[id] + TimesIn(r.flushes, id)]
          /\ sends' = IF r.accepted THEN [sends EXCEPT ![endpoint] = @ + 1] ELSE sends
          /\ autoFlushes' = [e \in DOMAIN autoFlushes |->
                 autoFlushes[e]
                   + Cardinality({i \in DOMAIN r.flushes : r.flushes[i].endpoint = e})]
          /\ netCalls' = [u \in Urls |-> netCalls[u] + CountTo(reqs, u)]
  /\ calls' = calls + 1
  /\ UNCHANGED <<flushCalls, stdSends, others>>

\* bc.Flush()
Flush ==
  /\ Running
  /\ flushCalls < MaxFlushCalls
  /\ \E order \in RangeOrders(bc),
        answers \in Answers(FlushOutcomes, Cardinality(DOMAIN bc.buffers)) :
     \E r \in { BuffConsumerFlush(bc, order, answers) } :
       LET reqs == RequestsOf(r.flushes)
       IN /\ Len(reqs) = Len(answers)
          /\ bc' = r.bc
          /\ op' = [name |-> "Flush", endpoint |-> "", ret |-> r.ret, appended |-> 0,
                    flushes |-> r.flushes, requests |-> reqs,
                    answers |-> answers]
          /\ included' = [id \in DOMAIN included |->
                            included[id] + TimesIn(r.flushes, id)]
          /\ netCalls' = [u \in Urls |-> netCalls[u] + CountTo(reqs, u)]
  /\ calls' = calls + 1
  /\ flushCalls' = flushCalls + 1
  /\ UNCHANGED <<nextId, sends, autoFlushes, stdSends, others>>

\* bc.StdConsumer.Send(endpoint, msg): the immediate channel, called directly
StdSend ==
  /\ Running
  /\ stdSends < MaxStdSends
  /\ \E endpoint \in EndpointNames, msg \in Messages,
        answers \in Answers(HttpOutcomes, 1) :
     \E r \in { StdConsumerSend(bc.StdConsumer, endpoint, msg,
                                 Answer(answers, 1)) } :
          /\ Len(r.requests) = Len(answers)
          /\ op' = [name |-> "StdSend", endpoint |-> endpoint, ret |-> r.ret, appended |-> 0,
                    flushes |-> <<>>, requests |-> r.requests,
                    answers |-> answers]
          /\ netCalls' = [u \in Urls |-> netCalls[u] + CountTo(r.requests, u)]
  /\ calls' = calls + 1
  /\ stdSends' = stdSends + 1
  /\ UNCHANGED <<bc, nextId, included, sends, autoFlushes, flushCalls, others>>

Next == BuffSend \/ Flush \/ StdSend

Spec == Init /\ [][Next]_vars

----------------------------------------------------------------------------
(* The batch encoder on its own: jsonArray applied to sequences of valid     *)
(* message fragments, and the receiver decoding the result as an array.      *)

\* Valid JSON fragments: a number, an empty object, an array of two numbers
\* and a string holding a comma.
Fragments ==
  { <<"1">>,
    <<"{", "}">>,
    <<"[", "1", ",", "1", "]">>,
    <<"\"", ",", "\"">> }

\* The elements of the text between the brackets of an array: split at the
\* commas that are outside every string and every nested array or object.
RECURSIVE splitElements(_, _, _, _, _, _)
splitElements(b, i, depth, inString, cur, acc) ==
  IF i > Len(b) THEN Append(acc, cur)
  ELSE LET ch == b[i]
       IN IF inString
          THEN splitElements(b, i + 1, depth, ch # "\"", Append(cur, ch), acc)
          ELSE IF ch = "\""
          THEN splitElements(b, i + 1, depth, TRUE, Append(cur, ch), acc)
          ELSE IF ch \in {"[", "{"}
          THEN splitElements(b, i + 1, depth + 1, FALSE, Append(cur, ch), acc)
          ELSE IF ch \in {"]", "}"}
          THEN splitElements(b, i + 1, depth - 1, FALSE, Append(cur, ch), acc)
          ELSE IF ch = "," /\ depth = 0
          THEN splitElements(b, i + 1, depth, FALSE, <<>>, Append(acc, cur))
          ELSE splitElements(b, i + 1, depth, FALSE, Append(cur, ch), acc)

\* Decoding a byte sequence as an array of raw elements; <<"error">> stands
\* for a text that is not a bracketed array.
decodeArray(b) ==
  IF Len(b) < 2 \/ b[1] # "[" \/ b[Len(b)] # "]" THEN << <<"error">> >>
  ELSE IF Len(b) = 2 THEN <<>>
  ELSE splitElements(SubSeq(b, 2, Len(b) - 1), 1, 0, FALSE, <<>>, <<>>)

InitEnc ==
  /\ Fresh(1)
  /\ pkg = NoPkg
  /\ conc = NoConc
  /\ \E n \in 0..MaxBatch : \E a \in [1..n -> Fragments] :
       enc = [stage |-> "input", a |-> a, b |-> <<>>, d |-> <<>>]

\* jsonArray(a)
Encode ==
  /\ enc.stage = "input"
  /\ enc' = [enc EXCEPT !.stage = "encoded", !.b = jsonArray(enc.a)]
  /\ UNCHANGED <<bc, op, calls, nextId, included, sends, autoFlushes,
                 flushCalls, stdSends, netCalls, pkg, conc>>

\* the receiver decodes the batch
Decode ==
  /\ enc.stage = "encoded"
  /\ enc' = [enc EXCEPT !.stage = "decoded", !.d = decodeArray(enc.b)]
  /\ UNCHANGED <<bc, op, calls, nextId, included, sends, autoFlushes,
                 flushCalls, stdSends, netCalls, pkg, conc>>

NextEnc == Encode \/ Decode

SpecEnc == InitEnc /\ [][NextEnc]_vars

----------------------------------------------------------------------------
(* b64 on its own: the value write gives the data query parameter.  Bytes   *)
(* are numbers 0..255; the result is a sequence of characters.              *)

\* The alphabet of base64.URLEncoding.
Alphabet ==
  << "A", "B", "C", "D", "E", "F", "G", "H", "I", "J", "K", "L", "M",
     "N", "O", "P", "Q", "R", "S", "T", "U", "V", "W", "X", "Y", "Z",
     "a", "b", "c", "d", "e", "f", "g", "h", "i", "j", "k", "l", "m",
     "n", "o", "p", "q", "r", "s", "t", "u", "v", "w", "x", "y", "z",
     "0", "1", "2", "3", "4", "5", "6", "7", "8", "9", "-", "_" >>

\* The k-th of the four 6-bit groups of the 24-bit number n, as a character.
Sextet(n, k) == Alphabet[((n \div (64 ^ (4 - k))) % 64) + 1]

\* base64.URLEncoding, which pads: every group of three bytes gives four
\* characters; a last group of one byte gives two characters and "==", of
\* two bytes three characters and "=" (encoder.Close writes the padding).
RECURSIVE b64From(_, _)
b64From(payload, i) ==
  LET left == Len(payload) - i + 1
  IN IF left <= 0 THEN <<>>
     ELSE IF left = 1
     THEN LET n == payload[i] * 65536
          IN << Sextet(n, 1), Sextet(n, 2), "=", "=" >>
     ELSE IF left = 2
     THEN LET n == payload[i] * 65536 + payload[i + 1] * 256
          IN << Sextet(n, 1), Sextet(n, 2), Sextet(n, 3), "=" >>
     ELSE LET n == payload[i] * 65536 + payload[i + 1] * 256 + payload[i + 2]
          IN << Sextet(n, 1), Sextet(n, 2), Sextet(n, 3), Sextet(n, 4) >>
               \o b64From(payload, i + 3)

\* The encoder never closed: a last group of one or two bytes is not written.
b64_unclosed(payload) ==
  b64From(SubSeq(payload, 1, 3 * (Len(payload) \div 3)), 1)

b64(payload) == b64From(payload, 1)

\* Bytes a message is made of: they reach the first, a middle and the last
\* two characters of the alphabet.
PayloadBytes == {0, 77, 251, 255}

Payloads == UNION { [1..n -> PayloadBytes] : n \in 0..MaxPayload }

InitB64 ==
  /\ Fresh(1)
  /\ pkg = NoPkg
  /\ conc = NoConc
  /\ \E payload \in Payloads :
       enc = [stage |-> "payload", a |-> payload, b |-> <<>>, d |-> <<>>]

\* write: q.Add("data", string(b64(msg)))
AddData ==
  /\ enc.stage = "payload"
  /\ enc' = [enc EXCEPT !.stage = "b64", !.b = b64(enc.a)]
  /\ UNCHANGED <<bc, op, calls, nextId, included, sends, autoFlushes,
                 flushCalls, stdSends, netCalls, pkg, conc>>

NextB64 == AddData

SpecB64 == InitB64 /\ [][NextB64]_vars

----------------------------------------------------------------------------
(* Mixpanel: Track, Import and PeopleUpdate on a Mixpanel made by           *)
(* NewMixpanel, whose consumer is a StdConsumer.  pkg holds the package     *)
(* variable import_endpoint, the Mixpanel, and what the last call did.      *)

Tokens == {"tok"}

NewMixpanel(token) == [Token |-> token, verbose |-> TRUE, c |-> NewStdConsumer]

\* What json.Marshal makes of the record built from the arguments: the bytes,
\* or an error for a property value that has no JSON form.
Marshalled ==
  { [ok |-> TRUE, data |-> m] : m \in Messages }
    \cup { [ok |-> FALSE, data |-> <<>>] }

sendEvent(mp, marshalled, endpoint, outcome) ==
  IF ~marshalled.ok
  THEN [ret |-> "MarshalError", consumerSends |-> <<>>, sendRets |-> <<>>,
        requests |-> <<>>]
  ELSE LET r == StdConsumerSend(mp.c, endpoint, marshalled.data, outcome)
       IN [ret |-> r.ret,
           consumerSends |-> << [endpoint |-> endpoint, msg |-> marshalled.data] >>,
           sendRets |-> << r.ret >>,
           requests |-> r.requests]

MixpanelTrack(g, mp, marshalled, outcome) ==
  [import_endpoint |-> g \o "?api_key=" \o mp.Token,
   done |-> sendEvent(mp, marshalled, "events", outcome)]

\* Alias is Track of the event "$create_alias".
MixpanelAlias(g, mp, marshalled, outcome) ==
  MixpanelTrack(g, mp, marshalled, outcome)

MixpanelImport(g, mp, marshalled, outcome) ==
  [import_endpoint |-> g,
   done |-> sendEvent(mp, marshalled, "import", outcome)]

MixpanelPeopleUpdate(g, mp, marshalled, outcome) ==
  [import_endpoint |-> g,
   done |-> IF ~marshalled.ok
            THEN [ret |-> "MarshalError", consumerSends |-> <<>>,
                  sendRets |-> <<>>, requests |-> <<>>]
            ELSE LET r == StdConsumerSend(mp.c, "people", marshalled.data, outcome)
                 IN [ret |-> r.ret,
                     consumerSends |-> << [endpoint |-> "people",
                                           msg |-> marshalled.data] >>,
                     sendRets |-> << r.ret >>,
                     requests |-> r.requests]]

NoCall == [name |-> "none", marshalled |-> FALSE, ret |-> "nil",
           consumerSends |-> <<>>, sendRets |-> <<>>, requests |-> <<>>]

\* No consumer constructed since the Mixpanel was made.
NoneMade == [kind |-> "none", tracks |-> 0, endpoints |-> <<>>]

InitMp ==
  /\ Fresh(1)
  /\ enc = NoEnc
  /\ conc = NoConc
  /\ \E token \in Tokens :
       pkg = [stage |-> "mp", import_endpoint |-> import_endpoint,
              mp |-> NewMixpanel(token), ncalls |-> 0, call |-> NoCall,
              tracks |-> 0, made |-> NoneMade]

MpRunning ==
  /\ pkg.stage = "mp"
  /\ pkg.ncalls < MaxCalls
  /\ pkg.call.ret # "panic"

\* One call of a Mixpanel method, r being what the method did.
MpCall(name, marshalled, answers, r) ==
  /\ Len(r.done.requests) = Len(answers)
  /\ pkg' = [pkg EXCEPT
               !.import_endpoint = r.import_endpoint,
               !.ncalls = @ + 1,
               !.tracks = IF name \in {"Track", "Alias"} THEN @ + 1 ELSE @,
               !.call = [name |-> name, marshalled |-> marshalled.ok,
                         ret |-> r.done.ret,
                         consumerSends |-> r.done.consumerSends,
                         sendRets |-> r.done.sendRets,
                         requests |-> r.done.requests]]
  /\ UNCHANGED <<bc, op, calls, nextId, included, sends, autoFlushes,
                 flushCalls, stdSends, netCalls, enc, conc>>

\* mp.Track(distinct_id, event, prop)
Track ==
  /\ MpRunning
  /\ \E marshalled \in Marshalled, answers \in Answers(HttpOutcomes, 1) :
       \E r \in { MixpanelTrack(pkg.import_endpoint, pkg.mp, marshalled,
                                 Answer(answers, 1)) } :
         MpCall("Track", marshalled, answers, r)

\* mp.Alias(alias_id, original_id)
Alias ==
  /\ MpRunning
  /\ \E marshalled \in Marshalled, answers \in Answers(HttpOutcomes, 1) :
       \E r \in { MixpanelAlias(pkg.import_endpoint, pkg.mp, marshalled,
                                 Answer(answers, 1)) } :
         MpCall("Alias", marshalled, answers, r)

\* NewStdConsumer(), or NewBuffConsumer(maxSize) which embeds one: made is
\* the endpoints map of the new consumer and the number of Track and Alias
\* calls made before it.
NewConsumer ==
  /\ MpRunning
  /\ \E kind \in {"StdConsumer", "BuffConsumer"} :
       pkg' = [pkg EXCEPT
                 !.made = [kind |-> kind, tracks |-> pkg.tracks,
                           endpoints |->
                             NewStdConsumerWith(pkg.import_endpoint).endpoints]]
  /\ UNCHANGED <<bc, op, calls, nextId, included, sends, autoFlushes,
                 flushCalls, stdSends, netCalls, enc, conc>>

\* mp.Import(distinct_id, event, prop)
Import ==
  /\ MpRunning
  /\ \E marshalled \in Marshalled, answers \in Answers(HttpOutcomes, 1) :
       \E r \in { MixpanelImport(pkg.import_endpoint, pkg.mp, marshalled,
                                  Answer(answers, 1)) } :
         MpCall("Import", marshalled, answers, r)

\* mp.PeopleUpdate(properties)
PeopleUpdate ==
  /\ MpRunning
  /\ \E marshalled \in Marshalled, answers \in Answers(HttpOutcomes, 1) :
       \E r \in { MixpanelPeopleUpdate(pkg.import_endpoint, pkg.mp, marshalled,
                                        Answer(answers, 1)) } :
         MpCall("PeopleUpdate", marshalled, answers, r)

NextMp == Track \/ Alias \/ Import \/ PeopleUpdate \/ NewConsumer

SpecMp == InitMp /\ [][NextMp]_vars

----------------------------------------------------------------------------
(* Goroutines sharing one BuffConsumer.  Send and Flush take no lock, so    *)
(* the steps of one call interleave with the steps of the others at every   *)
(* access to bc.buffers: the lookup, the read of the slice that append is   *)
(* given, the assignment of append's result (the element is written with    *)
(* it), the read of the length, and the read made by flushEndpoint.         *)

Procs == 1..NumProcs

\* The message the goroutines send: its bytes play no part in the interleaving.
ConcMessages == { <<"a">> }

IdleCall == [name |-> "none", endpoint |-> "", item |-> [id |-> 0, body |-> <<>>],
             loaded |-> <<>>, remaining |-> {}, ret |-> "nil"]

InitConc ==
  /\ \E m \in 1..MaxMaxSize : Fresh(m)
  /\ enc = NoEnc
  /\ pkg = NoPkg
  /\ conc = [stage |-> "conc",
             pc |-> [p \in Procs |-> "idle"],
             call |-> [p \in Procs |-> IdleCall],
             stored |-> {},
             flushed |-> {},
             overlapped |-> {},
             fatal |-> FALSE]

ConcRunning == conc.stage = "conc" /\ ~conc.fatal

\* Goroutines other than p that are inside Send(endpoint, _).
InSend(p, endpoint) ==
  { q \in Procs \ {p} : /\ conc.pc[q] \in {"load", "store", "test", "flush"}
                         /\ conc.call[q].endpoint = endpoint }

\* Send: if _, ok := bc.buffers[endpoint]; !ok { return error }
SendCall ==
  /\ ConcRunning
  /\ calls < MaxCalls
  /\ \E p \in Procs, endpoint \in EndpointNames, msg \in ConcMessages :
       /\ conc.pc[p] = "idle"
       /\ IF endpoint \notin DOMAIN bc.buffers
          THEN /\ conc' = [conc EXCEPT
                            !.call[p] = [IdleCall EXCEPT !.ret = "UnknownEndpoint"]]
               /\ UNCHANGED <<nextId, included>>
          ELSE /\ conc' = [conc EXCEPT
                            !.pc[p] = "load",
                            !.call[p] = [IdleCall EXCEPT
                                           !.name = "Send",
                                           !.endpoint = endpoint,
                                           !.item = [id |-> nextId, body |-> msg]]]
               /\ nextId' = nextId + 1
               /\ included' = Append(included, 0)
  /\ calls' = calls + 1
  /\ UNCHANGED <<bc, op, sends, autoFlushes, flushCalls, stdSends, netCalls,
                 enc, pkg>>

\* Send: append(bc.buffers[endpoint], msg) reads the slice
SendLoad ==
  /\ ConcRunning
  /\ \E p \in Procs :
       /\ conc.pc[p] = "load"
       /\ conc' = [conc EXCEPT
                     !.pc[p] = "store",
                     !.call[p].loaded = bc.buffers[conc.call[p].endpoint]]
  /\ UNCHANGED <<bc, op, calls, nextId, included, sends, autoFlushes,
                 flushCalls, stdSends, netCalls, enc, pkg>>

\* Send: bc.buffers[endpoint] = (the slice read, with msg after it)
SendStore ==
  /\ ConcRunning
  /\ \E p \in Procs :
       LET c == conc.call[p]
       IN /\ conc.pc[p] = "store"
          /\ bc' = [bc EXCEPT !.buffers[c.endpoint] = Append(c.loaded, c.item)]
          /\ sends' = [sends EXCEPT ![c.endpoint] = @ + 1]
          /\ conc' = [conc EXCEPT
                        !.pc[p] = "test",
                        !.stored = @ \cup {[id |-> c.item.id, endpoint |-> c.endpoint]}]
  /\ UNCHANGED <<op, calls, nextId, included, autoFlushes, flushCalls,
                 stdSends, netCalls, enc, pkg>>

\* Send: if len(bc.buffers[endpoint]) > int(bc.maxSize)
SendTest ==
  /\ ConcRunning
  /\ \E p \in Procs :
       LET c == conc.call[p]
       IN /\ conc.pc[p] = "test"
          /\ conc' = IF exceeds(Len(bc.buffers[c.endpoint]), bc.maxSize)
                     THEN [conc EXCEPT !.pc[p] = "flush"]
                     ELSE [conc EXCEPT !.pc[p] = "idle", !.call[p] = IdleCall]
  /\ UNCHANGED <<bc, op, calls, nextId, included, sends, autoFlushes,
                 flushCalls, stdSends, netCalls, enc, pkg>>

\* What a flushEndpoint call f of goroutine p on endpoint leaves in the
\* bookkeeping; pc and call are p's position and call record after it.
\* included counts, for every message, the batches it was put in.
Flushed(p, endpoint, f, pc, call) ==
  /\ Len(f.requests) = 1
  /\ bc' = f.bc
  /\ included' = [id \in DOMAIN included |->
                    included[id]
                      + (IF \E j \in DOMAIN f.items : f.items[j].id = id
                         THEN 1 ELSE 0)]
  /\ netCalls' = [u \in Urls |-> netCalls[u] + CountTo(f.requests, u)]
  /\ conc' = [conc EXCEPT
                !.pc[p] = pc,
                !.call[p] = call,
                !.flushed = @ \cup {endpoint},
                !.overlapped = IF InSend(p, endpoint) # {}
                               THEN @ \cup {endpoint} ELSE @,
                !.fatal = (f.ret = "panic")]

\* Send: bc.flushEndpoint(endpoint); return nil
SendFlush ==
  /\ ConcRunning
  /\ \E p \in Procs, outcome \in FlushOutcomes :
       LET c == conc.call[p]
       IN /\ conc.pc[p] = "flush"
          /\ \E f \in { flushEndpoint(bc, c.endpoint, outcome) } :
               Flushed(p, c.endpoint, f, "idle", IdleCall)
          /\ autoFlushes' = [autoFlushes EXCEPT ![c.endpoint] = @ + 1]
  /\ UNCHANGED <<op, calls, nextId, sends, flushCalls, stdSends, enc, pkg>>

\* Flush: for endpoint := range bc.buffers
FlushCall ==
  /\ ConcRunning
  /\ calls < MaxCalls
  /\ flushCalls < MaxFlushCalls
  /\ \E p \in Procs :
       /\ conc.pc[p] = "idle"
       /\ conc' = [conc EXCEPT
                     !.pc[p] = "range",
                     !.call[p] = [IdleCall EXCEPT
                                    !.name = "Flush",
                                    !.remaining = DOMAIN bc.buffers]]
  /\ calls' = calls + 1
  /\ flushCalls' = flushCalls + 1
  /\ UNCHANGED <<bc, op, nextId, included, sends, autoFlushes, stdSends,
                 netCalls, enc, pkg>>

\* Flush: bc.flushEndpoint(endpoint) for the next key the map yields;
\* return nil after the last
FlushStep ==
  /\ ConcRunning
  /\ \E p \in Procs, outcome \in FlushOutcomes :
       LET c == conc.call[p]
       IN /\ conc.pc[p] = "range"
          /\ \E endpoint \in c.remaining :
             \E f \in { flushEndpoint(bc, endpoint, outcome) } :
               IF c.remaining = {endpoint}
               THEN Flushed(p, endpoint, f, "idle", IdleCall)
               ELSE Flushed(p, endpoint, f, "range",
                            [c EXCEPT !.remaining = @ \ {endpoint}])
  /\ UNCHANGED <<op, calls, nextId, sends, autoFlushes, flushCalls, stdSends,
                 enc, pkg>>

\* The runtime's "fatal error: concurrent map writes" (or "concurrent map
\* read and map write"): one goroutine is assigning into bc.buffers while
\* another is at an access to it.
MapFault ==
  /\ ConcRunning
  /\ \E p \in Procs, q \in Procs :
       /\ p # q
       /\ conc.pc[p] = "store"
       /\ conc.pc[q] \in {"load", "store", "test", "flush", "range"}
  /\ conc' = [conc EXCEPT !.fatal = TRUE]
  /\ UNCHANGED <<bc, op, calls, nextId, included, sends, autoFlushes,
                 flushCalls, stdSends, netCalls, enc, pkg>>

NextConc ==
  \/ SendCall \/ SendLoad \/ SendStore \/ SendTest \/ SendFlush
  \/ FlushCall \/ FlushStep \/ MapFault

SpecConc == InitConc /\ [][NextConc]_vars

----------------------------------------------------------------------------
(* Properties *)

Registered == DOMAIN bc.buffers

CompletedFlushes == { i \in DOMAIN op.flushes : op.flushes[i].ret # "panic" }

\* C1: after a flush of an endpoint completes, inside Send or through Flush,
\* that endpoint's buffer is empty whatever the delivery outcome, and after
\* Flush() returns no message remains in any endpoint's buffer.
C1_FlushEmptiesBuffer ==
  /\ \A i \in CompletedFlushes : op.flushes[i].after = <<>>
  /\ (op.name = "Flush" /\ op.ret = "nil") =>
       \A e \in Registered : bc.buffers[e] = <<>>

\* C2: every message accepted by BuffConsumer.Send is included in at most one
\* batch handed to StdConsumer.Send, over any sequence of Send and Flush calls.
C2_AtMostOneBatch ==
  \A id \in DOMAIN included : included[id] <= 1

\* C3: between calls, each endpoint's buffer holds at most maxSize messages.
C3_BufferBounded ==
  \A e \in Registered : Len(bc.buffers[e]) <= bc.maxSize

\* C4: BuffConsumer.Send to a registered endpoint flushes that endpoint if and
\* only if the buffer length after the append is greater than maxSize; on a
\* fresh channel at most maxSize Sends to one endpoint perform no flush of it
\* and no request to its URL.
C4_FlushIffExceeds ==
  /\ (op.name = "BuffSend" /\ op.endpoint \in Registered) =>
       /\ op.appended > bc.maxSize =>
            /\ Len(op.flushes) = 1
            /\ op.flushes[1].endpoint = op.endpoint
       /\ op.appended <= bc.maxSize => op.flushes = <<>> /\ op.requests = <<>>
  /\ (flushCalls = 0 /\ stdSends = 0) =>
       \A e \in Registered :
         sends[e] <= bc.maxSize =>
           /\ autoFlushes[e] = 0
           /\ netCalls[bc.StdConsumer.endpoints[e]] = 0

\* C4 witness: a Send crossed the threshold of one endpoint while another
\* endpoint holds exactly maxSize messages and was never flushed.
C4_Witness ==
  /\ op.name = "BuffSend" /\ op.endpoint \in Registered
  /\ Len(op.flushes) = 1
  /\ flushCalls = 0 /\ stdSends = 0
  /\ \E e \in Registered : sends[e] = bc.maxSize /\ autoFlushes[e] = 0

\* C5: on a fresh BuffConsumer with no explicit Flush, k Sends to one endpoint
\* trigger exactly floor(k / (maxSize+1)) flushes, each carrying exactly
\* maxSize+1 messages.
C5_OneFlushPerCrossing ==
  flushCalls = 0 =>
    /\ \A e \in Registered : autoFlushes[e] = sends[e] \div (bc.maxSize + 1)
    /\ op.name = "BuffSend" =>
         \A i \in DOMAIN op.flushes : Len(op.flushes[i].items) = bc.maxSize + 1

\* C6: the batch forwarded by a flush of endpoint e is made of exactly the
\* messages that were in e's buffer when the flush started, in the order they
\* were appended, and is sent to that same endpoint e of the immediate
\* channel, by one request to e's URL.
C6_BatchIsSnapshot ==
  \A i \in DOMAIN op.flushes :
    LET f == op.flushes[i]
    IN /\ f.items = f.snapshot
       /\ \A j, k \in DOMAIN f.items : j < k => f.items[j].id < f.items[k].id
       /\ f.sendTo = f.endpoint
       /\ f.requests = << [url |-> bc.StdConsumer.endpoints[f.endpoint],
                           msg |-> f.msg] >>

\* C6 witness: a flush of an endpoint holding two or more messages while
\* another endpoint's buffer is not empty.
C6_Witness ==
  \E i \in DOMAIN op.flushes :
    /\ Len(op.flushes[i].snapshot) >= 2
    /\ op.flushes[i].endpoint # "events"
    /\ \E e \in Registered \ {op.flushes[i].endpoint} : bc.buffers[e] # <<>>

\* C7: Send with an endpoint name that is not registered returns the
\* UnknownEndpoint failure, for StdConsumer.Send and for BuffConsumer.Send,
\* leaves every buffer unchanged and makes no request.
C7_UnknownEndpoint ==
  [][ /\ calls' = calls + 1
      /\ op'.name \in {"BuffSend", "StdSend"}
      /\ op'.endpoint \notin DOMAIN bc.StdConsumer.endpoints
      => /\ op'.ret = "UnknownEndpoint"
         /\ bc' = bc
         /\ op'.requests = <<>> /\ op'.flushes = <<>>
         /\ netCalls' = netCalls ]_vars

\* C7 witness: BuffConsumer.Send with an unregistered name on a consumer that
\* holds messages, after a StdConsumer.Send was made.
C7_Witness ==
  /\ op.name = "BuffSend" /\ op.endpoint \notin Registered
  /\ op.ret = "UnknownEndpoint"
  /\ stdSends > 0
  /\ \E e \in Registered : bc.buffers[e] # <<>>

\* C8: BuffConsumer.Send to a registered endpoint returns success in every
\* case, also when the flush it triggers fails.
C8_SendReturnsSuccess ==
  (op.name = "BuffSend" /\ op.endpoint \in Registered) => op.ret = "nil"

\* C9: Flush() on a BuffConsumer whose buffers are all empty returns success
\* and makes no request; flushing one empty buffer is a no-op.
C9_EmptyFlushNoRequest ==
  /\ \A i \in DOMAIN op.flushes :
       op.flushes[i].snapshot = <<>> => op.flushes[i].requests = <<>>
  /\ (op.name = "Flush" /\ \A i \in DOMAIN op.flushes :
                              op.flushes[i].snapshot = <<>>) =>
       op.ret = "nil" /\ op.requests = <<>>

\* C10: Flush() returns the first failure met when the delivery of at least
\* one endpoint's batch fails, and success only if every flush succeeded.
FirstFailure(flushes) ==
  IF \A i \in DOMAIN flushes : flushes[i].ret = "nil" THEN "nil"
  ELSE flushes[CHOOSE i \in DOMAIN flushes :
                 /\ flushes[i].ret # "nil"
                 /\ \A j \in 1..(i-1) : flushes[j].ret = "nil"].ret

C10_FlushReturnsFirstFailure ==
  (op.name = "Flush" /\ CompletedFlushes = DOMAIN op.flushes) =>
     op.ret = FirstFailure(op.flushes)

\* The result of the call that consumed the i-th answer of the last call:
\* StdConsumer.Send itself, or the i-th flushEndpoint of a Send or Flush.
ResultOf(i) == IF op.name = "StdSend" THEN op.ret ELSE op.flushes[i].ret

StatusIsOne(body) ==
  /\ body.parses
  /\ body.status.present
  /\ body.status.type = "number"
  /\ body.status.val = 1

C14_RejectedIsReturned ==
  /\ \A i \in DOMAIN op.answers :
       LET b == op.answers[i].body
       IN (~op.answers[i].err /\ b.parses /\ b.status.present /\ ~StatusIsOne(b))
            => ResultOf(i) = "RemoteRejected"
  /\ op.ret # "panic"

C20_FlushAttemptsAll ==
  op.name = "Flush" =>
     { op.flushes[i].endpoint : i \in DOMAIN op.flushes } = Registered

RECURSIVE SumLen(_, _)
SumLen(a, k) == IF k = 0 THEN 0 ELSE Len(a[k]) + SumLen(a, k - 1)

\* Where the first byte of message k is expected in the batch.
StartOf(a, k) == 1 + SumLen(a, k - 1) + k

\* C16: the batch for m0..m(n-1) is '[' + m0 + ',' + m1 + ... + ']' and no
\* other byte: '[]' for no message, length = sum of the message lengths
\* + (n-1) separators + 2 for n >= 1.
C16_ExactFraming ==
  enc.stage \in {"encoded", "decoded"} =>
    LET a == enc.a
        b == enc.b
        n == Len(a)
    IN /\ n = 0 => b = <<"[", "]">>
       /\ n >= 1 => Len(b) = SumLen(a, n) + (n - 1) + 2
       /\ b[1] = "[" /\ b[Len(b)] = "]"
       /\ \A k \in 1..n :
            /\ \A j \in 1..Len(a[k]) :
                 /\ StartOf(a, k) + j - 1 <= Len(b)
                 /\ b[StartOf(a, k) + j - 1] = a[k][j]
            /\ k > 1 => b[StartOf(a, k) - 1] = ","

\* C16 witness: three messages of different lengths were encoded.
C16_Witness ==
  /\ enc.stage = "encoded"
  /\ Len(enc.a) = 3
  /\ Len(enc.a[1]) # Len(enc.a[2]) /\ Len(enc.a[2]) # Len(enc.a[3])

\* C17: decoding the batch of a sequence of valid fragments as an array
\* yields the original fragments, as many of them and in the same order.
C17_RoundTrip ==
  enc.stage = "decoded" => enc.d = enc.a

\* C17 witness: a batch was decoded whose fragments hold commas and brackets
\* of their own.
C17_Witness ==
  /\ enc.stage = "decoded"
  /\ Len(enc.a) >= 2
  /\ \E i, j \in DOMAIN enc.a :
       /\ i < j
       /\ enc.a[i] = <<"\"", ",", "\"">>
       /\ enc.a[j] = <<"[", "1", ",", "1", "]">>
  /\ Len(enc.d) = Len(enc.a)

EndpointOf(name) ==
  CASE name = "Track" -> "events"
    [] name = "Alias" -> "events"
    [] name = "Import" -> "import"
    [] name = "PeopleUpdate" -> "people"

\* C19: each call of Track, Import and PeopleUpdate (with arguments that
\* serialize) invokes Consumer.Send exactly once, on the events, import and
\* people endpoint respectively, returns the result of that call, and changes
\* no other state of the program.
C19_OneSendNoOtherEffect ==
  [][ /\ pkg.stage = "mp"
      /\ pkg'.ncalls = pkg.ncalls + 1
      /\ pkg'.call.marshalled
      => /\ Len(pkg'.call.consumerSends) = 1
         /\ pkg'.call.consumerSends[1].endpoint = EndpointOf(pkg'.call.name)
         /\ pkg'.call.ret = pkg'.call.sendRets[1]
         /\ pkg'.import_endpoint = pkg.import_endpoint
         /\ pkg'.mp = pkg.mp
         /\ bc' = bc ]_vars

\* Every goroutine is between calls and the program has not died.
Quiet ==
  /\ conc.stage = "conc"
  /\ ~conc.fatal
  /\ \A p \in Procs : conc.pc[p] = "idle"

StoredTo(endpoint) == { s.id : s \in { t \in conc.stored : t.endpoint = endpoint } }

IdsIn(items) == { items[i].id : i \in DOMAIN items }

\* C11: when N Send calls to one endpoint of a fresh consumer, N at most
\* maxSize, have all returned (however their steps interleaved, and no
\* flush of that endpoint having run), the endpoint's buffer holds exactly
\* the N messages sent, each once.
C11_ConcurrentSendsKeepAll ==
  Quiet =>
    \A e \in DOMAIN bc.buffers :
      ( /\ Cardinality(StoredTo(e)) <= bc.maxSize
        /\ e \notin conc.flushed )
      => /\ Len(bc.buffers[e]) = Cardinality(StoredTo(e))
         /\ IdsIn(bc.buffers[e]) = StoredTo(e)

BatchesWith(id) == included[id]

NeverNeither(e) ==
  \A id \in StoredTo(e) : BatchesWith(id) > 0 \/ id \in IdsIn(bc.buffers[e])

NeverBoth(e) ==
  \A id \in StoredTo(e) : ~(BatchesWith(id) > 0 /\ id \in IdsIn(bc.buffers[e]))

NeverTwice(e) ==
  \A id \in StoredTo(e) : BatchesWith(id) <= 1

\* C12: on an endpoint where a flush ran while another goroutine was inside
\* Send for it, every message appended is in a flush's batch or still in the
\* buffer, never both and never neither, and in no more than one batch.
C12_AppendFlushExclusive ==
  conc.stage = "conc" =>
    \A e \in conc.overlapped :
      NeverNeither(e) /\ NeverBoth(e) /\ NeverTwice(e)

\* C21: when the transport fails during StdConsumer.Send, the call returns
\* TransportError, whatever the classifier would make of the response, and
\* has made exactly one request: the failed send is not attempted again.
C21_TransportErrorNoRetry ==
  [][ /\ calls' = calls + 1
      /\ op'.name = "StdSend"
      /\ Len(op'.answers) > 0
      /\ op'.answers[1].err
      => /\ op'.ret = "TransportError"
         /\ Len(op'.requests) = 1
         /\ \A u \in Urls :
              netCalls'[u] = netCalls[u]
                + (IF u = bc.StdConsumer.endpoints[op'.endpoint] THEN 1 ELSE 0)
         /\ bc' = bc ]_vars

\* C21 witness: StdConsumer.Send to the import endpoint whose one request
\* met a transport failure, after an earlier call.
C21_Witness ==
  /\ op.name = "StdSend" /\ op.endpoint = "import"
  /\ Len(op.answers) = 1 /\ op.answers[1].err
  /\ op.ret = "TransportError"
  /\ netCalls[import_endpoint] = 1
  /\ calls > 1

\* The position of a character in the URL-safe alphabet, from 0.
ValueOf(ch) == (CHOOSE k \in 1..64 : Alphabet[k] = ch) - 1

\* The bytes that unpadded base64 text stands for: four characters give three
\* bytes, a last group of two characters one byte, of three characters two.
RECURSIVE bytesOf(_, _)
bytesOf(text, i) ==
  LET left == Len(text) - i + 1
      v(j) == IF i + j <= Len(text) THEN ValueOf(text[i + j]) ELSE 0
      n == v(0) * 262144 + v(1) * 4096 + v(2) * 64 + v(3)
      three == << n \div 65536, (n \div 256) % 256, n % 256 >>
  IN IF left <= 0 THEN <<>>
     ELSE IF left >= 4 THEN three \o bytesOf(text, i + 4)
     ELSE SubSeq(three, 1, left - 1)

\* C22: the value of the data parameter is the URL-safe base64 encoding of
\* the message without '=' padding, whatever the length of the message: it
\* is made of characters of the URL-safe alphabet only, has the length of
\* the unpadded encoding, and stands for the bytes of the message.
C22_DataIsUnpaddedBase64 ==
  enc.stage = "b64" =>
    /\ \A i \in DOMAIN enc.b : \E k \in 1..64 : Alphabet[k] = enc.b[i]
    /\ Len(enc.b) = (4 * Len(enc.a) + 2) \div 3
    /\ bytesOf(enc.b, 1) = enc.a

\* Number of '=' characters that pad the encoding of n bytes.
PadOf(n) == (3 - (n % 3)) % 3

\* C22 as amended: the value of the data parameter is the URL-safe base64
\* encoding of the message with its '=' padding kept: the unpadded encoding
\* (URL-safe characters standing for the bytes of the message) followed by
\* two, one or no '=' for lengths 1, 2 and 0 modulo 3.
C22_DataIsPaddedBase64 ==
  enc.stage = "b64" =>
    LET n == Len(enc.a)
        m == (4 * n + 2) \div 3
    IN /\ Len(enc.b) = m + PadOf(n)
       /\ \A i \in 1..m : \E k \in 1..64 : Alphabet[k] = enc.b[i]
       /\ \A i \in (m + 1)..Len(enc.b) : enc.b[i] = "="
       /\ bytesOf(SubSeq(enc.b, 1, m), 1) = enc.a

\* C22 witness: a message of two bytes whose encoding uses both URL-safe
\* characters and ends in one '='.
C22_Witness ==
  /\ enc.stage = "b64"
  /\ enc.a = <<251, 255>>
  /\ enc.b = <<"-", "_", "8", "=">>

\* C23: in every reachable state of a BuffConsumer the endpoints that have a
\* buffer are the endpoints the embedded StdConsumer maps to a URL, namely
\* events, people and import; no Send or Flush adds or removes a key or
\* changes a mapped URL; and no flush fails with UnknownEndpoint.
C23_EndpointSetsFixed ==
  /\ DOMAIN bc.buffers = DOMAIN bc.StdConsumer.endpoints
  /\ DOMAIN bc.buffers = {"events", "people", "import"}
  /\ bc.StdConsumer.endpoints["events"] = events_endpoint
  /\ bc.StdConsumer.endpoints["people"] = people_endpoint
  /\ bc.StdConsumer.endpoints["import"] = import_endpoint
  /\ \A i \in DOMAIN op.flushes :
       /\ op.flushes[i].ret # "UnknownEndpoint"
       /\ Len(op.flushes[i].requests) = 1

\* C23 witness: a Flush() over the three endpoints, after a Send with an
\* unregistered name was refused and a message was buffered.
C23_Witness ==
  /\ op.name = "Flush" /\ Len(op.flushes) = 3
  /\ calls = 3
  /\ nextId = 2
  /\ \E e \in DOMAIN bc.buffers : Len(bc.buffers[e]) = 1

\* C24: the URL a newly constructed StdConsumer or BuffConsumer maps to the
\* import endpoint is the one a consumer constructed before any call gets,
\* however many Track or Alias calls were made before its construction.
C24_ImportUrlIndependentOfTracks ==
  (pkg.stage = "mp" /\ pkg.made.kind # "none") =>
     pkg.made.endpoints["import"] = NewStdConsumer.endpoints["import"]

====
